---- MODULE Spec2Model ----
(***************************************************************************)
(* Daily puzzle scheduling and player session state of artalyze-backend.   *)
(*                                                                         *)
(* Time is a count of hours since 00:00 UTC of day 0.  A puzzle bucket     *)
(* (one imagePairs document) is named by the UTC calendar day d whose      *)
(* 05:00 UTC instant is its scheduledDate: every writer of the current     *)
(* admin routes normalises the date with setUTCHours(5, 0, 0, 0).          *)
(***************************************************************************)
EXTENDS Integers, Sequences, FiniteSets, TLC

\* ------------------------------------------------------------------ bounds
MaxDay == 4          \* bucket days are 0..MaxDay; the admin clock ends in MaxDay - 1
FirstDay == 2        \* the clock starts in UTC day FirstDay
MaxRequests == 2     \* admin requests started in one behaviour
ClockDays == 3       \* UTC days the player clock runs through
MaxGames == 3        \* updateUserStats is not called beyond this gamesPlayed
MaxTotal == 5        \* totalQuestions ranges over 0..MaxTotal
MaxOverdraw == 2     \* decrementTries is not called below triesRemaining = -MaxOverdraw
MaxEdits == 1        \* bucket edits by the administrator before the puzzle is read
ScanCap == 2         \* days a scan may examine, standing for the cap of 365
MaxBatch == 2        \* human images one run of the daily automation is given

\* ------------------------------------------------------- program constants
MAX_PAIRS == 5       \* $expr: { $lt: [{ $size: "$pairs" }, 5] }

Days == 0..MaxDay
Workers == {1, 2}    \* request-handling workers that may interleave

\* Instants sampled in each UTC day: one in [00:00, 04:00), one in
\* [04:00, 05:00) and one in [05:00, 24:00).  The code reads the clock only
\* through the UTC calendar day, and the Eastern civil day changes at 04:00
\* or 05:00 UTC, so every instant behaves like one of these three.
SampleHours == {2, 4, 12}
InstantsOf(days) == { 24 * d + h : d \in days, h \in SampleHours }
Instants == InstantsOf(FirstDay..(MaxDay - 1))
SessionInstants == InstantsOf(FirstDay..(FirstDay + ClockDays - 1))

VARIABLES
  now,        \* current instant, hours since 00:00 UTC of day 0
  dst,        \* TRUE while US Eastern observes daylight saving time
  store,      \* imagePairs collection: day -> [exists, pairs]
  nextId,     \* next pair identifier (_id of a pushed sub-document)
  req,        \* per worker: the request in flight (an upload, or a mark-as-played)
  requests,   \* number of admin requests started so far
  calls,      \* day -> number of append calls completed against that day
  succ,       \* day -> number of append calls that reported success
  initLen,    \* day -> number of pairs in the bucket in the initial state
  last,       \* the most recent admin response, with what the handler observed
  hasStats,   \* TRUE when the user has a Stats document
  stats,      \* the user's Stats document
  lastS       \* the most recent player-session response, with the document before it

storeVars == <<store, nextId, req, requests, calls, succ, initLen, last>>
sessionVars == <<hasStats, stats, lastS>>
vars == <<now, dst, storeVars, sessionVars>>

\* ------------------------------------------------------ Civil Day Resolver
\* new Date(); d.setUTCHours(5, 0, 0, 0): 05:00 UTC of the current UTC date,
\* named here by that UTC date.
UtcDay(t) == t \div 24

\* Offset of US Eastern from UTC, in hours.
EasternOffset(isDst) == IF isDst THEN 4 ELSE 5

\* formatDate(new Date()): the UTC calendar date, date.toISOString() up to "T".
formatDate(t) == t \div 24

\* todayKey(): the civil day of instant t in US Eastern.
todayKey(t, isDst) == (t - EasternOffset(isDst)) \div 24

\* yesterdayKey(): todayKey() minus one civil day.
yesterdayKey(t, isDst) == todayKey(t, isDst) - 1

\* ------------------------------------------------------------ Puzzle Store
NoBucket == [exists |-> FALSE, pairs |-> <<>>]

PairsOf(s, d) == s[d].pairs

\* findOne({ scheduledDate: targetDate, $expr: { $lt: [{ $size: "$pairs" }, 5] } })
FindUnderCapacity(s, d) == s[d].exists /\ Len(s[d].pairs) < MAX_PAIRS

\* findOne({ scheduledDate: targetDate })
FindBucket(s, d) == s[d].exists

\* findOneAndUpdate({ scheduledDate }, { $push: { pairs: ... } }, { upsert: true })
PushPair(s, d, id) ==
  [s EXCEPT ![d] = [exists |-> TRUE, pairs |-> Append(s[d].pairs, id)]]

\* A day is available when it has no bucket or its bucket is under capacity.
HasRoom(s, d) == ~s[d].exists \/ Len(s[d].pairs) < MAX_PAIRS

\* ---------------------------------------------------------- initial store
InitCounts == {0, MAX_PAIRS - 1, MAX_PAIRS}
InitDays == (FirstDay - 1)..FirstDay

RECURSIVE SumBelow(_, _)
SumBelow(c, d) == IF d = 0 THEN 0 ELSE SumBelow(c, d - 1) + c[d - 1]

IdsFrom(base, n) == [i \in 1..n |-> base + i]

StoreOf(c) ==
  [d \in Days |->
     IF c[d] = 0 THEN NoBucket
     ELSE [exists |-> TRUE, pairs |-> IdsFrom(SumBelow(c, d), c[d])]]

Idle == [pc |-> "idle", target |-> 0, t0 |-> 0, dirty |-> FALSE, aiImageUrl |-> "none"]

\* A response: op names the handler, status and error what it answered, day
\* the bucket it was about, today the civil day (todayKey) when it read the
\* clock, pre the number of pairs of that bucket before the handler's write,
\* unchanged / grewByOne what the write did to the store, sequential whether
\* no other writer changed the store while the handler ran, firstFree the
\* earliest civil day >= today that had room before the write, pair the pair
\* identifier of the request and pairs the pairs of the response body.
Response(op, status, error, day, today, pre, unchanged, grewByOne, sequential, firstFree) ==
  [op |-> op, status |-> status, error |-> error, day |-> day, today |-> today,
   pre |-> pre, unchanged |-> unchanged, grewByOne |-> grewByOne,
   sequential |-> sequential, firstFree |-> firstFree, pair |-> 0, pairs |-> <<>>]

NoResponse == Response("none", 0, "none", 0, 0, 0, TRUE, FALSE, TRUE, 0)


\* ---------------------------------------------------- Player Session State
NoDate == -1         \* lastPlayedDate: { type: String, default: null }
NoScore == -1        \* mostRecentScore: { type: Number, default: null }

MistakeKeys == 0..(IF MaxTotal > 5 THEN MaxTotal ELSE 5)

\* new Stats({ userId }): the schema's defaults.
NewStats ==
  [gamesPlayed |-> 0, winPercentage |-> 0, currentStreak |-> 0, maxStreak |-> 0,
   perfectStreak |-> 0, maxPerfectStreak |-> 0, perfectPuzzles |-> 0,
   mistakeDistribution |-> [k \in MistakeKeys |-> 0], mostRecentScore |-> NoScore,
   lastPlayedDate |-> NoDate, lastSelectionMadeDate |-> NoDate,
   lastTriesMadeDate |-> NoDate, triesRemaining |-> 3, selections |-> <<>>,
   completedSelections |-> <<>>, alreadyGuessed |-> <<>>]

\* A player-session response: op names the handler, status what it answered,
\* perfect / correct / total the request body, hadStats and before the Stats
\* document the handler found, today and yesterday the civil days it read,
\* selections the selections array of the response body.
SessionResponse(op, status, perfect, correct, total, today, yesterday) ==
  [op |-> op, status |-> status, perfect |-> perfect, correct |-> correct,
   total |-> total, hadStats |-> hasStats, before |-> stats,
   today |-> today, yesterday |-> yesterday, hasPlayedToday |-> FALSE,
   selections |-> <<>>]

InitSessionVars ==
  /\ hasStats = FALSE
  /\ stats = NewStats
  /\ lastS = [op |-> "none", status |-> 0, perfect |-> FALSE, correct |-> 0,
              total |-> 0, hadStats |-> FALSE, before |-> NewStats,
              today |-> 0, yesterday |-> 0, hasPlayedToday |-> FALSE,
              selections |-> <<>>]

InitStoreVars ==
  /\ store = [d \in Days |-> NoBucket]
  /\ nextId = 1
  /\ initLen = [d \in Days |-> 0]
  /\ req = [w \in Workers |-> Idle]
  /\ requests = 0
  /\ calls = [d \in Days |-> 0]
  /\ succ = [d \in Days |-> 0]
  /\ last = NoResponse

InitSession ==
  /\ now \in InstantsOf({FirstDay})
  /\ dst \in BOOLEAN
  /\ InitStoreVars
  /\ InitSessionVars

InitStore ==
  /\ now \in Instants
  /\ dst \in BOOLEAN
  /\ InitSessionVars
  /\ \E c \in [Days -> InitCounts] :
       /\ \A d \in Days \ InitDays : c[d] = 0
       /\ store = StoreOf(c)
       /\ nextId = SumBelow(c, MaxDay) + c[MaxDay] + 1
       /\ initLen = c
  /\ req = [w \in Workers |-> Idle]
  /\ requests = 0
  /\ calls = [d \in Days |-> 0]
  /\ succ = [d \in Days |-> 0]
  /\ last = NoResponse

\* The clock moves forward to a later sampled instant.
Tick(instants) ==
  /\ \E t \in instants : t > now /\ now' = t
  /\ UNCHANGED <<dst, storeVars, sessionVars>>

\* -------------------------------------------------------- Puzzle Scheduler
\* The earliest day >= from that has room, MaxDay + 1 when there is none
\* within the modelled days.
EarliestWithRoom(s, from) ==
  IF \E d \in Days : d >= from /\ HasRoom(s, d)
  THEN CHOOSE d \in Days :
         /\ d >= from /\ HasRoom(s, d)
         /\ \A e \in Days : (e >= from /\ e < d) => ~HasRoom(s, e)
  ELSE MaxDay + 1

\* Every other request in flight has seen the store change under it.
MarkDirty(r, w) ==
  [v \in Workers |-> IF v # w /\ r[v].pc # "idle" THEN [r[v] EXCEPT !.dirty = TRUE] ELSE r[v]]

\* POST /upload-image-pair with scheduledDate = date: the past-date check,
\* the two Cloudinary uploads, then one findOneAndUpdate with $push, upsert.
\* (A body without scheduledDate is answered 400 before any of this and
\* touches nothing; it is left out.)
UploadImagePair(date, hasImages, cloudOk) ==
  /\ requests < MaxRequests
  /\ requests' = requests + 1
  /\ LET today == UtcDay(now)
         requestedDate == date
         tk == todayKey(now, dst)
         pre == Len(PairsOf(store, date))
         ff == EarliestWithRoom(store, tk)
     IN IF requestedDate < today
        THEN /\ last' = Response("explicit", 400, "PastDate", date, tk, pre, TRUE, FALSE, TRUE, ff)
             /\ UNCHANGED <<store, nextId, req, calls, succ>>
        ELSE IF ~hasImages
        THEN /\ last' = Response("explicit", 400, "MissingImages", date, tk, pre, TRUE, FALSE, TRUE, ff)
             /\ UNCHANGED <<store, nextId, req, calls, succ>>
        ELSE IF ~cloudOk
        THEN /\ last' = Response("explicit", 500, "UploadFailed", date, tk, pre, TRUE, FALSE, TRUE, ff)
             /\ UNCHANGED <<store, nextId, req, calls, succ>>
        ELSE /\ store' = PushPair(store, requestedDate, nextId)
             /\ nextId' = nextId + 1
             /\ req' = MarkDirty(req, 0)
             /\ calls' = [calls EXCEPT ![date] = @ + 1]
             /\ succ' = [succ EXCEPT ![date] = @ + 1]
             /\ last' = Response("explicit", 200, "none", date, tk, pre,
                                  store' = store, store' = PushPair(store, date, nextId), TRUE, ff)
  /\ UNCHANGED <<now, dst, initLen, sessionVars>>

\* Mutant of StartHumanUpload: a null AI image is scheduled like any other.
StartHumanUpload_nullProceeds(w, gen) ==
  /\ req[w].pc = "idle"
  /\ requests < MaxRequests
  /\ requests' = requests + 1
  /\ LET tk == todayKey(now, dst)
         ff == EarliestWithRoom(store, tk)
     IN CASE gen = "throw" ->
               /\ last' = Response("auto", 500, "GenerationFailed", 0, tk, 0, TRUE, FALSE, TRUE, ff)
               /\ UNCHANGED req
          [] OTHER ->
               /\ req' = [req EXCEPT ![w] = [pc |-> "scan", target |-> UtcDay(now), t0 |-> now,
                                              dirty |-> FALSE, aiImageUrl |-> gen]]
               /\ UNCHANGED last
  /\ UNCHANGED <<now, dst, store, nextId, calls, succ, initLen, sessionVars>>

\* POST /upload-human-image up to the call of findNextAvailableDate: the
\* creative pipeline runs (gen is what generateAIImage gave), then the scan
\* starts at 05:00 UTC of the current UTC date.
StartHumanUpload(w, gen) ==
  /\ req[w].pc = "idle"
  /\ requests < MaxRequests
  /\ requests' = requests + 1
  /\ LET tk == todayKey(now, dst)
         ff == EarliestWithRoom(store, tk)
     IN CASE gen = "null" ->
               /\ last' = Response("auto", 429, "GenerationSkipped", 0, tk, 0, TRUE, FALSE, TRUE, ff)
               /\ UNCHANGED req
          [] gen = "throw" ->
               /\ last' = Response("auto", 500, "GenerationFailed", 0, tk, 0, TRUE, FALSE, TRUE, ff)
               /\ UNCHANGED req
          [] OTHER ->
               /\ req' = [req EXCEPT ![w] = [pc |-> "scan", target |-> UtcDay(now), t0 |-> now,
                                              dirty |-> FALSE, aiImageUrl |-> gen]]
               /\ UNCHANGED last
  /\ UNCHANGED <<now, dst, store, nextId, calls, succ, initLen, sessionVars>>

\* findNextAvailableDate, first query of an iteration: a bucket of targetDate
\* with fewer than 5 pairs ends the scan.
ScanFirst(w) ==
  /\ req[w].pc = "scan"
  /\ req' = [req EXCEPT ![w].pc =
               IF FindUnderCapacity(store, req[w].target) THEN "save" ELSE "scan2"]
  /\ UNCHANGED <<now, dst, store, nextId, requests, calls, succ, initLen, last, sessionVars>>

\* findNextAvailableDate, second query of an iteration: no bucket at all ends
\* the scan, a (full) bucket moves targetDate to the next day.
ScanSecond(w) ==
  /\ req[w].pc = "scan2"
  /\ IF ~FindBucket(store, req[w].target)
     THEN req' = [req EXCEPT ![w].pc = "save"]
     ELSE /\ req[w].target < MaxDay
          /\ req' = [req EXCEPT ![w].pc = "scan", ![w].target = @ + 1]
  /\ UNCHANGED <<now, dst, store, nextId, requests, calls, succ, initLen, last, sessionVars>>

\* saveImagePair(targetDate, ...) and the handler's 200 response.
SaveImagePair(w) ==
  /\ req[w].pc = "save"
  /\ LET d == req[w].target
         tk == todayKey(req[w].t0, dst)
     IN /\ store' = PushPair(store, d, nextId)
        /\ nextId' = nextId + 1
        /\ calls' = [calls EXCEPT ![d] = @ + 1]
        /\ succ' = [succ EXCEPT ![d] = @ + 1]
        /\ last' = Response("auto", 200, "none", d, tk, Len(PairsOf(store, d)),
                             store' = store, store' = PushPair(store, d, nextId),
                             ~req[w].dirty, EarliestWithRoom(store, tk))
  /\ req' = [MarkDirty(req, w) EXCEPT ![w] = Idle]
  /\ UNCHANGED <<now, dst, requests, initLen, sessionVars>>

NextStore ==
  \/ Tick(Instants)
  \/ \E date \in Days, hasImages \in BOOLEAN, cloudOk \in BOOLEAN :
       UploadImagePair(date, hasImages, cloudOk)
  \/ \E w \in Workers, gen \in {"ok", "null", "throw"} : StartHumanUpload(w, gen)
  \/ \E w \in Workers : ScanFirst(w)
  \/ \E w \in Workers : ScanSecond(w)
  \/ \E w \in Workers : SaveImagePair(w)

SpecStore == InitStore /\ [][NextStore]_vars

\* The scheduler on a collection that holds no bucket yet.
InitEmpty ==
  /\ now \in Instants
  /\ dst \in BOOLEAN
  /\ InitSessionVars
  /\ InitStoreVars

SpecUploads == InitEmpty /\ [][NextStore]_vars

\* The scheduler on a store whose buckets from the first clock day on are
\* either absent or full; the last modelled day has no bucket, so every scan
\* ends within the modelled days.
InitScan ==
  /\ now \in Instants
  /\ dst \in BOOLEAN
  /\ InitSessionVars
  /\ \E c \in [Days -> {0, MAX_PAIRS}] :
       /\ \A d \in Days : (d < FirstDay \/ d >= MaxDay) => c[d] = 0
       /\ store = StoreOf(c)
       /\ nextId = SumBelow(c, MaxDay) + c[MaxDay] + 1
       /\ initLen = c
  /\ req = [w \in Workers |-> Idle]
  /\ requests = 0
  /\ calls = [d \in Days |-> 0]
  /\ succ = [d \in Days |-> 0]
  /\ last = NoResponse

SpecScan == InitScan /\ [][NextStore]_vars

\* ------------------------------------------- Daily puzzle read and removal
\* The scheduledDate of the bucket of UTC day d: 05:00 UTC of that day.
scheduledDate(d) == 24 * d + 5

\* A pair identifier occurs in a pairs array.
HasPair(pairs, id) == \E i \in 1..Len(pairs) : pairs[i] = id

\* { $pull: { pairs: { _id: { $in: pairIds } } } }
PullPairs(pairs, pairIds) == SelectSeq(pairs, LAMBDA p : p \notin pairIds)

\* GET /daily-puzzle: the bucket whose scheduledDate lies between 05:00 UTC
\* of the current UTC date and 04:59:59.999 UTC of the next, and that has a
\* first pair.
getDailyPuzzle ==
  /\ LET startOfDay == 24 * UtcDay(now) + 5
         endOfDay == startOfDay + 24
         tk == todayKey(now, dst)
         found == { d \in Days : /\ store[d].exists
                                 /\ scheduledDate(d) >= startOfDay
                                 /\ scheduledDate(d) < endOfDay
                                 /\ Len(store[d].pairs) >= 1 }
     IN IF found = {}
        THEN last' = Response("daily", 404, "NoPuzzle", UtcDay(now), tk, 0, TRUE, FALSE, TRUE, 0)
        ELSE \E d \in found :
               last' = [Response("daily", 200, "none", d, tk, Len(store[d].pairs),
                                 TRUE, FALSE, TRUE, 0)
                          EXCEPT !.pairs = store[d].pairs]
  /\ UNCHANGED <<now, dst, store, nextId, req, requests, calls, succ, initLen, sessionVars>>

\* Mutant of PulledStore: the pull empties the bucket.
PulledStore_all(s, d, pairIds) ==
  [s EXCEPT ![d].pairs = <<>>]

\* findOneAndUpdate({ scheduledDate in the UTC date }, { $pull: ... }).
PulledStore(s, d, pairIds) ==
  [s EXCEPT ![d].pairs = PullPairs(@, pairIds)]

\* DELETE /delete-pair with body { pairId, scheduledDate }: the bucket of the
\* UTC date is looked up, the pair must be in it, then it is pulled.
deletePair(date, pairId) ==
  /\ requests' = requests + 1
  /\ LET tk == todayKey(now, dst)
         pre == Len(PairsOf(store, date))
         r == [Response("delete", 200, "none", date, tk, pre, FALSE, FALSE, TRUE, 0)
                 EXCEPT !.pair = pairId]
     IN IF ~FindBucket(store, date)
        THEN /\ last' = [r EXCEPT !.status = 404, !.error = "NoPairsForDate", !.unchanged = TRUE]
             /\ UNCHANGED store
        ELSE IF ~HasPair(store[date].pairs, pairId)
        THEN /\ last' = [r EXCEPT !.status = 404, !.error = "PairNotFound", !.unchanged = TRUE]
             /\ UNCHANGED store
        ELSE /\ store' = PulledStore(store, date, {pairId})
             /\ last' = [r EXCEPT !.pairs = store'[date].pairs]
  /\ UNCHANGED <<now, dst, nextId, req, calls, succ, initLen, sessionVars>>

\* DELETE /bulk-delete-selected-pairs with body { scheduledDate, pairIds }.
bulkDeleteSelectedPairs(date, pairIds) ==
  /\ requests' = requests + 1
  /\ LET tk == todayKey(now, dst)
         pre == Len(PairsOf(store, date))
         r == Response("bulkDelete", 200, "none", date, tk, pre, FALSE, FALSE, TRUE, 0)
     IN IF ~FindBucket(store, date)
        THEN /\ last' = [r EXCEPT !.status = 404, !.error = "NoPairsForDate", !.unchanged = TRUE]
             /\ UNCHANGED store
        ELSE IF Len(store[date].pairs) = 0
        THEN /\ last' = [r EXCEPT !.status = 404, !.error = "NoPairsToDelete", !.unchanged = TRUE]
             /\ UNCHANGED store
        ELSE IF \A id \in pairIds : ~HasPair(store[date].pairs, id)
        THEN /\ last' = [r EXCEPT !.status = 404, !.error = "NoSelectedPairs", !.unchanged = TRUE]
             /\ UNCHANGED store
        ELSE /\ store' = PulledStore(store, date, pairIds)
             /\ last' = [r EXCEPT !.pairs = store'[date].pairs]
  /\ UNCHANGED <<now, dst, nextId, req, calls, succ, initLen, sessionVars>>

\* One administrator editing buckets while players read the daily puzzle,
\* at any one sampled instant.
NextPuzzle ==
  \/ \E date \in Days, hasImages \in BOOLEAN, cloudOk \in BOOLEAN :
       requests < MaxEdits /\ UploadImagePair(date, hasImages, cloudOk)
  \/ getDailyPuzzle
  \/ \E date \in Days, pairId \in 1..nextId :
       requests < MaxEdits /\ deletePair(date, pairId)
  \/ \E date \in Days, pairId \in 1..nextId :
       requests < MaxEdits /\ bulkDeleteSelectedPairs(date, {pairId, pairId + 1})

SpecPuzzle == InitStore /\ [][NextPuzzle]_vars

\* ------------------------------------------------- Player Session handlers
\* Math.round((perfectPuzzles / gamesPlayed) * 100), halves rounded up.
RoundPercent(p, g) == (200 * p + g) \div (2 * g)

Max(a, b) == IF a >= b THEN a ELSE b

\* registerUser: the Stats document created with the account.
registerUser ==
  /\ ~hasStats
  /\ hasStats' = TRUE
  /\ stats' = NewStats
  /\ lastS' = SessionResponse("registerUser", 201, FALSE, 0, 0,
                              todayKey(now, dst), yesterdayKey(now, dst))
  /\ UNCHANGED <<now, dst, storeVars>>

\* checkIfPlayedToday for a logged-in user: a missing Stats document is
\* created with lastPlayedDate = today and the answer is hasPlayedToday false.
checkIfPlayedToday ==
  /\ LET todayInEST == todayKey(now, dst)
         r == SessionResponse("checkIfPlayedToday", 200, FALSE, 0, 0,
                              todayInEST, yesterdayKey(now, dst))
     IN IF ~hasStats
        THEN /\ hasStats' = TRUE
             /\ stats' = [NewStats EXCEPT !.triesRemaining = 3, !.lastPlayedDate = todayInEST]
             /\ lastS' = r
        ELSE /\ lastS' = [r EXCEPT !.hasPlayedToday = (stats.lastPlayedDate = todayInEST)]
             /\ UNCHANGED <<hasStats, stats>>
  /\ UNCHANGED <<now, dst, storeVars>>

\* Mutant of markAsPlayedStats: the consecutive-day branch adds to
\* perfectStreak whether or not the game was perfect.
markAsPlayedStats_alwaysPerfect(s, todayInEST, yesterdayInEST, isPerfectPuzzle) ==
  IF s.lastPlayedDate = yesterdayInEST
  THEN [s EXCEPT !.lastPlayedDate = todayInEST,
                 !.currentStreak = @ + 1,
                 !.perfectStreak = @ + 1]
  ELSE IF s.lastPlayedDate # todayInEST
  THEN [s EXCEPT !.lastPlayedDate = todayInEST,
                 !.currentStreak = 1,
                 !.perfectStreak = IF isPerfectPuzzle THEN 1 ELSE 0]
  ELSE [s EXCEPT !.lastPlayedDate = todayInEST]

\* Mutant of markAsPlayedStats: any earlier play day continues the streak.
markAsPlayedStats_gapContinues(s, todayInEST, yesterdayInEST, isPerfectPuzzle) ==
  IF s.lastPlayedDate # todayInEST
  THEN [s EXCEPT !.lastPlayedDate = todayInEST,
                 !.currentStreak = @ + 1,
                 !.perfectStreak = IF isPerfectPuzzle THEN @ + 1 ELSE 0]
  ELSE [s EXCEPT !.lastPlayedDate = todayInEST]

\* Mutant of markAsPlayedStats: the second branch lost its test of today, so
\* a repeated completion restarts the streaks.
markAsPlayedStats_sameDayRestarts(s, todayInEST, yesterdayInEST, isPerfectPuzzle) ==
  IF s.lastPlayedDate = yesterdayInEST
  THEN [s EXCEPT !.lastPlayedDate = todayInEST,
                 !.currentStreak = @ + 1,
                 !.perfectStreak = IF isPerfectPuzzle THEN @ + 1 ELSE 0]
  ELSE [s EXCEPT !.lastPlayedDate = todayInEST,
                 !.currentStreak = 1,
                 !.perfectStreak = IF isPerfectPuzzle THEN 1 ELSE 0]

\* markAsPlayedToday: the streak fields and lastPlayedDate the handler saves.
markAsPlayedStats(s, todayInEST, yesterdayInEST, isPerfectPuzzle) ==
  LET currentStreak == s.currentStreak
      perfectStreak == s.perfectStreak
  IN IF s.lastPlayedDate = yesterdayInEST
     THEN [s EXCEPT !.lastPlayedDate = todayInEST,
                    !.currentStreak = currentStreak + 1,
                    !.perfectStreak = IF isPerfectPuzzle THEN perfectStreak + 1 ELSE 0]
     ELSE IF s.lastPlayedDate # todayInEST
     THEN [s EXCEPT !.lastPlayedDate = todayInEST,
                    !.currentStreak = 1,
                    !.perfectStreak = IF isPerfectPuzzle THEN 1 ELSE 0]
     ELSE [s EXCEPT !.lastPlayedDate = todayInEST,
                    !.currentStreak = currentStreak,
                    !.perfectStreak = perfectStreak]

\* POST /mark-as-played with body { isPerfectPuzzle }.
markAsPlayedToday(isPerfectPuzzle) ==
  /\ LET todayInEST == todayKey(now, dst)
         yesterdayInEST == yesterdayKey(now, dst)
     IN IF ~hasStats
        THEN /\ lastS' = SessionResponse("markAsPlayedToday", 404, isPerfectPuzzle, 0, 0,
                                         todayInEST, yesterdayInEST)
             /\ UNCHANGED <<hasStats, stats>>
        ELSE /\ stats' = markAsPlayedStats(stats, todayInEST, yesterdayInEST, isPerfectPuzzle)
             /\ lastS' = SessionResponse("markAsPlayedToday", 200, isPerfectPuzzle, 0, 0,
                                         todayInEST, yesterdayInEST)
             /\ UNCHANGED hasStats
  /\ UNCHANGED <<now, dst, storeVars>>

\* Mutant of updatedCounters: the count of a mistake number is set to 1
\* instead of raised by 1.
updatedCounters_setsOne(s, correctAnswers, totalQuestions) ==
  LET mistakes == Max(totalQuestions - correctAnswers, 0)
  IN [s EXCEPT !.gamesPlayed = @ + 1,
               !.mostRecentScore = mistakes,
               !.mistakeDistribution = [@ EXCEPT ![mistakes] = 1]]

\* updateUserStats, the counters: gamesPlayed, mistakes, mistakeDistribution
\* and mostRecentScore.
updatedCounters(s, correctAnswers, totalQuestions) ==
  LET mistakes == Max(totalQuestions - correctAnswers, 0)
  IN [s EXCEPT !.gamesPlayed = @ + 1,
               !.mostRecentScore = mistakes,
               !.mistakeDistribution = [@ EXCEPT ![mistakes] = @ + 1]]

\* updateUserStats, the streak fields.
updatedStreaks(s, todayInEST, yesterdayInEST, isPerfectGame) ==
  LET t == IF s.lastPlayedDate = yesterdayInEST
           THEN [s EXCEPT !.currentStreak = @ + 1,
                          !.perfectStreak = IF isPerfectGame THEN @ + 1 ELSE 0]
           ELSE IF s.lastPlayedDate # todayInEST
           THEN [s EXCEPT !.currentStreak = 1,
                          !.perfectStreak = IF isPerfectGame THEN 1 ELSE 0]
           ELSE s
  IN [t EXCEPT !.maxStreak = Max(t.maxStreak, t.currentStreak),
               !.maxPerfectStreak = Max(t.maxPerfectStreak, t.perfectStreak)]

\* updateUserStats, perfectPuzzles, winPercentage and lastPlayedDate.
updatedTotals(s, todayInEST, isPerfectGame) ==
  LET perfectPuzzles == IF isPerfectGame THEN s.perfectPuzzles + 1 ELSE s.perfectPuzzles
  IN [s EXCEPT !.perfectPuzzles = perfectPuzzles,
               !.winPercentage = RoundPercent(perfectPuzzles, s.gamesPlayed),
               !.lastPlayedDate = todayInEST]

\* The document updateUserStats saves.
updatedStats(s, todayInEST, yesterdayInEST, correctAnswers, totalQuestions) ==
  LET isPerfectGame == (correctAnswers = totalQuestions)
  IN updatedTotals(
       updatedStreaks(updatedCounters(s, correctAnswers, totalQuestions),
                      todayInEST, yesterdayInEST, isPerfectGame),
       todayInEST, isPerfectGame)

\* PUT /stats/:userId with body { correctAnswers, totalQuestions }: a missing
\* Stats document is initialised first.
updateUserStats(correctAnswers, totalQuestions) ==
  /\ stats.gamesPlayed < MaxGames
  /\ LET todayInEST == todayKey(now, dst)
         yesterdayInEST == yesterdayKey(now, dst)
         found == IF hasStats THEN stats ELSE NewStats
     IN /\ stats' = updatedStats(found, todayInEST, yesterdayInEST, correctAnswers, totalQuestions)
        /\ hasStats' = TRUE
        /\ lastS' = [SessionResponse("updateUserStats", 200, correctAnswers = totalQuestions,
                                     correctAnswers, totalQuestions, todayInEST, yesterdayInEST)
                       EXCEPT !.before = found]
  /\ UNCHANGED <<now, dst, storeVars>>

\* resetUserStats: findOneAndUpdate({ userId }, { $set: resetStats }).  The
\* key currentPerfectStreak is not a path of the schema, so perfectStreak is
\* not written; a missing document stays missing and the answer is 200.
resetUserStats ==
  /\ IF hasStats
     THEN stats' = [stats EXCEPT !.gamesPlayed = 0, !.winPercentage = 0,
                                 !.currentStreak = 0, !.maxStreak = 0,
                                 !.perfectPuzzles = 0, !.maxPerfectStreak = 0,
                                 !.mistakeDistribution = [k \in MistakeKeys |-> 0],
                                 !.mostRecentScore = NoScore,
                                 !.lastPlayedDate = NoDate]
     ELSE UNCHANGED stats
  /\ lastS' = SessionResponse("resetUserStats", 200, FALSE, 0, 0,
                              todayKey(now, dst), yesterdayKey(now, dst))
  /\ UNCHANGED <<hasStats, now, dst, storeVars>>

\* Player sessions over several civil days: a finished game is either
\* perfect or one answer short of it.
NextSession ==
  \/ Tick(SessionInstants)
  \/ registerUser
  \/ checkIfPlayedToday
  \/ \E isPerfectPuzzle \in BOOLEAN : markAsPlayedToday(isPerfectPuzzle)
  \/ \E correctAnswers \in {MaxTotal - 1, MaxTotal} : updateUserStats(correctAnswers, MaxTotal)
  \/ resetUserStats

SpecSession == InitSession /\ [][NextSession]_vars

\* The stats update on every request body in range, within one civil day.
NextAttempt ==
  \/ registerUser
  \/ \E correctAnswers \in 0..(MaxTotal + 1), totalQuestions \in 0..MaxTotal :
       updateUserStats(correctAnswers, totalQuestions)
  \/ resetUserStats

SpecAttempt == InitSession /\ [][NextAttempt]_vars

\* ------------------------------------------------ In-progress selections
\* Request bodies of PUT /selections: arrays of selected pair indices.
SelectionInputs == {<<>>, <<0>>, <<0, 1>>}

\* Mutant of getSelectionsStats: the stored selections are cleared on every
\* read.
getSelectionsStats_alwaysResets(s, today) ==
  [s EXCEPT !.selections = <<>>, !.lastSelectionMadeDate = today]

\* getSelections: the document after the lazy reset.
getSelectionsStats(s, today) ==
  IF s.lastSelectionMadeDate # today
  THEN [s EXCEPT !.selections = <<>>, !.lastSelectionMadeDate = today]
  ELSE s

\* GET /selections.
getSelections ==
  /\ LET today == todayKey(now, dst)
         r == SessionResponse("getSelections", 200, FALSE, 0, 0, today, yesterdayKey(now, dst))
     IN IF ~hasStats
        THEN /\ lastS' = [r EXCEPT !.status = 404]
             /\ UNCHANGED <<hasStats, stats>>
        ELSE /\ stats' = getSelectionsStats(stats, today)
             /\ lastS' = [r EXCEPT !.selections = stats'.selections]
             /\ UNCHANGED hasStats
  /\ UNCHANGED <<now, dst, storeVars>>

\* PUT /selections with body { selections }: findOneAndUpdate with $set and
\* upsert.  (A body whose selections is not an array is answered 400 and
\* touches nothing; it is left out.)
saveSelections(selections) ==
  /\ LET today == todayKey(now, dst)
         found == IF hasStats THEN stats ELSE NewStats
     IN /\ stats' = [found EXCEPT !.selections = selections, !.lastSelectionMadeDate = today]
        /\ hasStats' = TRUE
        /\ lastS' = [SessionResponse("saveSelections", 200, FALSE, 0, 0, today,
                                     yesterdayKey(now, dst))
                       EXCEPT !.selections = stats'.selections]
  /\ UNCHANGED <<now, dst, storeVars>>

\* -------------------------------------------- Other stored answer state
\* Request bodies of the completed-selections and already-guessed routes.
AnswerInputs == {<<>>, <<0>>}

\* GET /stats/:userId and GET /completed-selections: reads.
getUserStats ==
  /\ lastS' = SessionResponse("getUserStats", IF hasStats THEN 200 ELSE 404, FALSE, 0, 0,
                              todayKey(now, dst), yesterdayKey(now, dst))
  /\ UNCHANGED <<hasStats, stats, now, dst, storeVars>>

getCompletedSelections ==
  /\ lastS' = [SessionResponse("getCompletedSelections", IF hasStats THEN 200 ELSE 404,
                               FALSE, 0, 0, todayKey(now, dst), yesterdayKey(now, dst))
                 EXCEPT !.selections = IF hasStats THEN stats.completedSelections ELSE <<>>]
  /\ UNCHANGED <<hasStats, stats, now, dst, storeVars>>

\* PUT /completed-selections/:userId: findOne, then save; no upsert.
saveCompletedSelections(completedSelections) ==
  /\ LET r == SessionResponse("saveCompletedSelections", 200, FALSE, 0, 0,
                              todayKey(now, dst), yesterdayKey(now, dst))
     IN IF ~hasStats
        THEN /\ lastS' = [r EXCEPT !.status = 404]
             /\ UNCHANGED stats
        ELSE /\ stats' = [stats EXCEPT !.completedSelections = completedSelections]
             /\ lastS' = [r EXCEPT !.selections = completedSelections]
  /\ UNCHANGED <<hasStats, now, dst, storeVars>>

\* PUT /already-guessed: findOneAndUpdate with $set and upsert.
saveAlreadyGuessed(alreadyGuessed) ==
  /\ LET found == IF hasStats THEN stats ELSE NewStats
     IN /\ stats' = [found EXCEPT !.alreadyGuessed = alreadyGuessed]
        /\ hasStats' = TRUE
        /\ lastS' = SessionResponse("saveAlreadyGuessed", 200, FALSE, 0, 0,
                                    todayKey(now, dst), yesterdayKey(now, dst))
  /\ UNCHANGED <<now, dst, storeVars>>

\* PUT /attempts: findOneAndUpdate with upsert; attempts is not a path of the
\* schema, so nothing but the document itself is written.
saveAttempts ==
  /\ stats' = IF hasStats THEN stats ELSE NewStats
  /\ hasStats' = TRUE
  /\ lastS' = SessionResponse("saveAttempts", 200, FALSE, 0, 0,
                              todayKey(now, dst), yesterdayKey(now, dst))
  /\ UNCHANGED <<now, dst, storeVars>>

\* PUT /completed-attempts: a missing document is created with new Stats;
\* completedAttempts is not a path of the schema either.
saveCompletedAttempts ==
  /\ stats' = IF hasStats THEN stats ELSE NewStats
  /\ hasStats' = TRUE
  /\ lastS' = SessionResponse("saveCompletedAttempts", 200, FALSE, 0, 0,
                              todayKey(now, dst), yesterdayKey(now, dst))
  /\ UNCHANGED <<now, dst, storeVars>>

\* deleteUserStats: findOneAndDelete, answered 200 either way.
deleteUserStats ==
  /\ hasStats' = FALSE
  /\ stats' = NewStats
  /\ lastS' = SessionResponse("deleteUserStats", 200, FALSE, 0, 0,
                              todayKey(now, dst), yesterdayKey(now, dst))
  /\ UNCHANGED <<now, dst, storeVars>>

\* ------------------------------------------------------- Tries remaining
\* GET /tries.
getTriesRemaining ==
  /\ lastS' = SessionResponse("getTriesRemaining", IF hasStats THEN 200 ELSE 404, FALSE, 0, 0,
                              todayKey(now, dst), yesterdayKey(now, dst))
  /\ UNCHANGED <<hasStats, stats, now, dst, storeVars>>

\* decrementTries: { $inc: { triesRemaining: -1 }, lastTriesMadeDate: todayInEST }.
decrementTriesStats(s, today) ==
  [s EXCEPT !.triesRemaining = @ - 1, !.lastTriesMadeDate = today]

\* PUT /tries/decrement: findOneAndUpdate without upsert.
decrementTries ==
  /\ hasStats => stats.triesRemaining > -MaxOverdraw
  /\ LET today == todayKey(now, dst)
         r == SessionResponse("decrementTries", 200, FALSE, 0, 0, today, yesterdayKey(now, dst))
     IN IF ~hasStats
        THEN /\ lastS' = [r EXCEPT !.status = 404]
             /\ UNCHANGED stats
        ELSE /\ stats' = decrementTriesStats(stats, today)
             /\ lastS' = r
  /\ UNCHANGED <<hasStats, now, dst, storeVars>>

\* Mutant of resetTriesStats: tries come back only on a new day.
resetTriesStats_newDayOnly(s, today) ==
  IF s.lastTriesMadeDate # today
  THEN [s EXCEPT !.triesRemaining = 3, !.lastTriesMadeDate = today]
  ELSE s

\* resetTries: the document after the conditional reset.
resetTriesStats(s, today) ==
  IF s.lastPlayedDate = today \/ s.lastTriesMadeDate # today
  THEN [s EXCEPT !.triesRemaining = 3, !.lastTriesMadeDate = today]
  ELSE s

\* PUT /tries/reset.
resetTries ==
  /\ LET today == todayKey(now, dst)
         r == SessionResponse("resetTries", 200, FALSE, 0, 0, today, yesterdayKey(now, dst))
     IN IF ~hasStats
        THEN /\ lastS' = [r EXCEPT !.status = 404]
             /\ UNCHANGED stats
        ELSE /\ stats' = resetTriesStats(stats, today)
             /\ lastS' = r
  /\ UNCHANGED <<hasStats, now, dst, storeVars>>

\* One player's in-progress selections over several civil days.
NextSelections ==
  \/ Tick(SessionInstants)
  \/ registerUser
  \/ getSelections
  \/ \E selections \in SelectionInputs : saveSelections(selections)

SpecSelections == InitSession /\ [][NextSelections]_vars

\* One player's tries and completions over several civil days.
NextTries ==
  \/ Tick(SessionInstants)
  \/ registerUser
  \/ \E isPerfectPuzzle \in BOOLEAN : markAsPlayedToday(isPerfectPuzzle)
  \/ getTriesRemaining
  \/ decrementTries
  \/ resetTries

SpecTries == InitSession /\ [][NextTries]_vars

\* Every player-session operation invoked for a user who has no Stats
\* document; deleteUserStats removes the document again.
NextMissing ==
  \/ Tick(SessionInstants)
  \/ hasStats /\ deleteUserStats
  \/ ~hasStats /\ registerUser
  \/ ~hasStats /\ checkIfPlayedToday
  \/ ~hasStats /\ \E isPerfectPuzzle \in BOOLEAN : markAsPlayedToday(isPerfectPuzzle)
  \/ ~hasStats /\ \E correctAnswers \in {MaxTotal - 1, MaxTotal} :
                     updateUserStats(correctAnswers, MaxTotal)
  \/ ~hasStats /\ resetUserStats
  \/ ~hasStats /\ getUserStats
  \/ ~hasStats /\ getSelections
  \/ ~hasStats /\ \E selections \in SelectionInputs : saveSelections(selections)
  \/ ~hasStats /\ getCompletedSelections
  \/ ~hasStats /\ \E completedSelections \in AnswerInputs :
                     saveCompletedSelections(completedSelections)
  \/ ~hasStats /\ \E alreadyGuessed \in AnswerInputs : saveAlreadyGuessed(alreadyGuessed)
  \/ ~hasStats /\ saveAttempts
  \/ ~hasStats /\ saveCompletedAttempts
  \/ ~hasStats /\ getTriesRemaining
  \/ ~hasStats /\ decrementTries
  \/ ~hasStats /\ resetTries

SpecMissing == InitSession /\ [][NextMissing]_vars

\* One player's stored answers of the day over several civil days.
NextAnswers ==
  \/ Tick(SessionInstants)
  \/ registerUser
  \/ getSelections
  \/ saveSelections(<<0, 1>>)
  \/ saveCompletedSelections(<<0>>)
  \/ saveAlreadyGuessed(<<0>>)

SpecAnswers == InitSession /\ [][NextAnswers]_vars

\* ------------------------------------- Concurrent mark-as-played requests
\* Mutant of savedStats: the save adds what the handler added to its copy.
savedStats_adds(cur, loaded, computed) ==
  [cur EXCEPT !.lastPlayedDate = computed.lastPlayedDate,
              !.currentStreak = @ + (computed.currentStreak - loaded.currentStreak),
              !.perfectStreak = computed.perfectStreak]

\* stats.save() of markAsPlayedToday: the three assigned paths are written
\* where the handler changed them in the document it had loaded.
savedStats(cur, loaded, computed) ==
  [cur EXCEPT !.lastPlayedDate =
                 IF computed.lastPlayedDate # loaded.lastPlayedDate
                 THEN computed.lastPlayedDate ELSE @,
              !.currentStreak =
                 IF computed.currentStreak # loaded.currentStreak
                 THEN computed.currentStreak ELSE @,
              !.perfectStreak =
                 IF computed.perfectStreak # loaded.perfectStreak
                 THEN computed.perfectStreak ELSE @]

\* No worker has a request in flight or answered.
NoneSplit == \A w \in Workers : req[w].pc = "idle"

\* markAsPlayedToday up to Stats.findOne: the dates are read, the document
\* is loaded; a missing document is answered 404.
LoadStats(w, isPerfectPuzzle) ==
  /\ req[w].pc = "idle"
  /\ LET todayInEST == todayKey(now, dst)
         yesterdayInEST == yesterdayKey(now, dst)
     IN IF ~hasStats
        THEN /\ lastS' = SessionResponse("markAsPlayedToday", 404, isPerfectPuzzle, 0, 0,
                                         todayInEST, yesterdayInEST)
             /\ UNCHANGED req
        ELSE /\ req' = [req EXCEPT ![w] = [pc |-> "loaded", loaded |-> stats,
                                           today |-> todayInEST, yesterday |-> yesterdayInEST,
                                           isPerfectPuzzle |-> isPerfectPuzzle]]
             /\ UNCHANGED lastS
  /\ UNCHANGED <<now, dst, store, nextId, requests, calls, succ, initLen, last, hasStats, stats>>

\* markAsPlayedToday from the streak computation to the response.
SaveStats(w) ==
  /\ req[w].pc = "loaded"
  /\ LET r == req[w]
         computed == markAsPlayedStats(r.loaded, r.today, r.yesterday, r.isPerfectPuzzle)
     IN /\ stats' = savedStats(stats, r.loaded, computed)
        /\ lastS' = SessionResponse("markAsPlayedToday", 200, r.isPerfectPuzzle, 0, 0,
                                    r.today, r.yesterday)
        /\ req' = [req EXCEPT ![w].pc = "saved"]
  /\ UNCHANGED <<now, dst, store, nextId, requests, calls, succ, initLen, last, hasStats>>

\* One user: first completions that do not overlap, over several days, then
\* one mark-as-played request per worker, which may overlap.
NextDuplicate ==
  \/ Tick(SessionInstants)
  \/ registerUser
  \/ NoneSplit /\ \E isPerfectPuzzle \in BOOLEAN : markAsPlayedToday(isPerfectPuzzle)
  \/ \E w \in Workers, isPerfectPuzzle \in BOOLEAN : LoadStats(w, isPerfectPuzzle)
  \/ \E w \in Workers : SaveStats(w)

SpecDuplicate == InitSession /\ [][NextDuplicate]_vars

\* ------------------------------------------------- Automated daily batch
\* automateDaily up to the loop: getOldestUnusedImages gave n human images
\* (none ends the run), today is the UTC date (formatDate).
StartAutomateDaily(w, n) ==
  /\ req[w].pc = "idle"
  /\ requests < MaxRequests
  /\ requests' = requests + 1
  /\ req' = [req EXCEPT ![w] = [pc |-> IF n = 0 THEN "done" ELSE "items", n |-> n, i |-> 0,
                                 today |-> formatDate(now), attempted |-> {},
                                 results |-> <<>>, ids |-> <<>>, stored |-> FALSE]]
  /\ UNCHANGED <<now, dst, store, nextId, calls, succ, initLen, last, sessionVars>>

\* One iteration of automateDaily's loop: caption, prompt, AI image and the
\* uploads either all succeed (the pair joins results) or one of them throws
\* (caught, the loop continues with the next image).
ProcessImagePair(w, ok) ==
  /\ req[w].pc = "items"
  /\ LET r == req[w]
         item == r.i + 1
     IN req' = [req EXCEPT ![w].i = item,
                           ![w].attempted = @ \cup {item},
                           ![w].results = IF ok THEN Append(@, item) ELSE @,
                           ![w].pc = IF item = r.n THEN "store" ELSE "items"]
  /\ UNCHANGED <<now, dst, store, nextId, requests, calls, succ, initLen, last, sessionVars>>

\* The end of automateDaily: with at least one result, updateMongoDB builds a
\* new document { scheduledDate: new Date(today), pairs: results } and saves
\* it; scheduledDate is unique, so the save throws when a document of that
\* date is stored already.  ids are the _id values the new document gives
\* its pairs.
StoreResults(w) ==
  /\ req[w].pc = "store"
  /\ LET r == req[w]
         n == Len(r.results)
         ids == IdsFrom(nextId - 1, n)
     IN IF n = 0
        THEN /\ req' = [req EXCEPT ![w].pc = "done"]
             /\ UNCHANGED <<store, nextId>>
        ELSE /\ nextId' = nextId + n
             /\ IF store[r.today].exists
                THEN /\ req' = [req EXCEPT ![w].pc = "done", ![w].ids = ids]
                     /\ UNCHANGED store
                ELSE /\ req' = [req EXCEPT ![w].pc = "done", ![w].ids = ids, ![w].stored = TRUE]
                     /\ store' = [store EXCEPT ![r.today] = [exists |-> TRUE, pairs |-> ids]]
  /\ UNCHANGED <<now, dst, requests, calls, succ, initLen, last, sessionVars>>

\* Runs of the daily automation on a collection that holds only the
\* documents these runs created: the bucket of day d is the document whose
\* scheduledDate is 00:00 UTC of d.
NextBatch ==
  \/ Tick(Instants)
  \/ \E w \in Workers, n \in 0..MaxBatch : StartAutomateDaily(w, n)
  \/ \E w \in Workers, ok \in BOOLEAN : ProcessImagePair(w, ok)
  \/ \E w \in Workers : StoreResults(w)

SpecBatch == InitEmpty /\ [][NextBatch]_vars

\* --------------------------------------------- Bulk regeneration of a day
\* POST /bulk-regenerate-selected-ai-images up to the loop: the document of
\* the UTC date is read once; doc.pairs is copied into updatedPairs.
StartBulkRegenerate(w, date, pairIds) ==
  /\ req[w].pc = "idle"
  /\ LET tk == todayKey(now, dst)
         pre == Len(PairsOf(store, date))
         r == Response("bulkRegenerate", 404, "none", date, tk, pre, TRUE, FALSE, TRUE, 0)
         selectedPairs == SelectSeq(store[date].pairs, LAMBDA p : p \in pairIds)
     IN IF ~FindBucket(store, date)
        THEN /\ last' = [r EXCEPT !.error = "NoPairsForDate"]
             /\ UNCHANGED req
        ELSE IF Len(store[date].pairs) = 0
        THEN /\ last' = [r EXCEPT !.error = "NoPairsToRegenerate"]
             /\ UNCHANGED req
        ELSE IF Len(selectedPairs) = 0
        THEN /\ last' = [r EXCEPT !.error = "NoSelectedPairs"]
             /\ UNCHANGED req
        ELSE /\ req' = [req EXCEPT ![w] = [pc |-> "regenerate", date |-> date, i |-> 0,
                                           updatedPairs |-> store[date].pairs,
                                           selectedPairs |-> selectedPairs,
                                           regenerated |-> {}]]
             /\ UNCHANGED last
  /\ UNCHANGED <<now, dst, store, nextId, requests, calls, succ, initLen, sessionVars>>

\* One iteration of the regeneration loop: a new AI image replaces the
\* pair's aiImageURL and metadata in updatedPairs; a null image or a thrown
\* error leaves the entry as it was read, and the loop goes on.
RegeneratePair(w, gen) ==
  /\ req[w].pc = "regenerate"
  /\ req[w].i < Len(req[w].selectedPairs)
  /\ LET pair == req[w].selectedPairs[req[w].i + 1]
     IN req' = [req EXCEPT ![w].i = @ + 1,
                           ![w].regenerated = IF gen = "ok" THEN @ \cup {pair} ELSE @]
  /\ UNCHANGED <<now, dst, store, nextId, requests, calls, succ, initLen, last, sessionVars>>

\* The end of the handler: findOneAndUpdate({ scheduledDate in the UTC date },
\* { $set: { pairs: updatedPairs } }) and the 200 response.
FinishBulkRegenerate(w) ==
  /\ req[w].pc = "regenerate"
  /\ req[w].i = Len(req[w].selectedPairs)
  /\ LET r == req[w]
         tk == todayKey(now, dst)
     IN /\ store' = [store EXCEPT ![r.date].pairs = r.updatedPairs]
        /\ last' = [Response("bulkRegenerate", 200, "none", r.date, tk,
                             Len(PairsOf(store, r.date)), store' = store, FALSE, TRUE, 0)
                      EXCEPT !.pairs = r.updatedPairs]
        /\ req' = [req EXCEPT ![w].pc = "regenerated"]
  /\ UNCHANGED <<now, dst, nextId, requests, calls, succ, initLen, sessionVars>>

\* One administrator running one bulk regenerate on a day that has a bucket
\* while pairs are placed on that day or removed from it, at any one sampled
\* instant.
NextRegenerate ==
  \/ \E w \in Workers, date \in InitDays, pairId \in 1..nextId :
       NoneSplit /\ StartBulkRegenerate(w, date, {pairId, pairId + 1})
  \/ \E w \in Workers, gen \in {"ok", "null", "throw"} : RegeneratePair(w, gen)
  \/ \E w \in Workers : FinishBulkRegenerate(w)
  \/ \E date \in Days, hasImages \in BOOLEAN, cloudOk \in BOOLEAN :
       requests < MaxEdits /\ UploadImagePair(date, hasImages, cloudOk)
  \/ \E date \in Days, pairId \in 1..nextId :
       requests < MaxEdits /\ deletePair(date, pairId)

SpecRegenerate == InitStore /\ [][NextRegenerate]_vars

\* A logged-in player who looks at the game and spends tries over several
\* civil days without ever completing a puzzle.
NextLazy ==
  \/ Tick(SessionInstants)
  \/ registerUser
  \/ checkIfPlayedToday
  \/ getTriesRemaining
  \/ decrementTries
  \/ resetTries

SpecLazy == InitSession /\ [][NextLazy]_vars

\* ------------------------------------------- The two completion-time calls
\* The client reports a finished game with two calls on the same civil day,
\* PUT /stats/:userId and POST /mark-as-played, in either order (statsFirst)
\* and with the same outcome: isPerfectPuzzle is correctAnswers = totalQuestions.
completePuzzle(statsFirst, correctAnswers, totalQuestions) ==
  /\ stats.gamesPlayed < MaxGames
  /\ LET todayInEST == todayKey(now, dst)
         yesterdayInEST == yesterdayKey(now, dst)
         isPerfectPuzzle == (correctAnswers = totalQuestions)
         found == IF hasStats THEN stats ELSE NewStats
         marked == IF hasStats
                   THEN markAsPlayedStats(stats, todayInEST, yesterdayInEST, isPerfectPuzzle)
                   ELSE NewStats
     IN /\ stats' = IF statsFirst
                    THEN markAsPlayedStats(
                           updatedStats(found, todayInEST, yesterdayInEST, correctAnswers, totalQuestions),
                           todayInEST, yesterdayInEST, isPerfectPuzzle)
                    ELSE updatedStats(marked, todayInEST, yesterdayInEST, correctAnswers, totalQuestions)
        /\ hasStats' = TRUE
        /\ lastS' = [SessionResponse("completePuzzle", 200, isPerfectPuzzle, correctAnswers,
                                     totalQuestions, todayInEST, yesterdayInEST)
                       EXCEPT !.before = found]
  /\ UNCHANGED <<now, dst, storeVars>>

\* One player looking at the game and finishing games over several civil
\* days, each finished game reported with both calls.
NextPair ==
  \/ Tick(SessionInstants)
  \/ registerUser
  \/ checkIfPlayedToday
  \/ \E statsFirst \in BOOLEAN, correctAnswers \in {MaxTotal - 1, MaxTotal} :
       completePuzzle(statsFirst, correctAnswers, MaxTotal)

SpecPair == InitSession /\ [][NextPair]_vars

\* The sum of the counts of a mistake distribution over the keys 0..k.
RECURSIVE SumCounts(_, _)
SumCounts(dist, k) == IF k < 0 THEN 0 ELSE dist[k] + SumCounts(dist, k - 1)

\* ================================================================== claims
Min(a, b) == IF a <= b THEN a ELSE b

Completed == lastS.op \in {"markAsPlayedToday", "updateUserStats"} /\ lastS.status = 200

\* C1: capacity invariant.  In every reachable state of the puzzle store,
\* under any interleaving of automated and explicit-date placements, the
\* bucket of every day holds at most MAX_PAIRS pairs.
C1_CapacityInvariant ==
  \A d \in Days : Len(PairsOf(store, d)) <= MAX_PAIRS

\* C2: of the append calls completed against one day whose bucket held
\* initLen[d] pairs, exactly min(calls, MAX_PAIRS - initLen[d]) succeeded;
\* every other call was told CapacityExceeded.
C2_SuccessesBoundedByRoom ==
  \A d \in Days : succ[d] = Min(calls[d], MAX_PAIRS - initLen[d])

\* C3: an automated placement that ran without a concurrent writer put its
\* pair in the earliest civil day d >= todayKey() that had room: d is not
\* before today, no day in [today, d) had room, and d's bucket grew by
\* exactly that pair.
C3_EarliestDayWithRoom ==
  (last.op = "auto" /\ last.status = 200 /\ last.sequential) =>
     /\ last.day >= last.today
     /\ last.day = last.firstFree
     /\ last.grewByOne

\* C4: an explicit-date placement is rejected with PastDate, the store left
\* unchanged, exactly when the date is a civil day strictly before
\* todayKey(), at every instant of the current civil day.
C4_PastDateExactlyBeforeToday ==
  last.op = "explicit" =>
     /\ (last.error = "PastDate") <=> (last.day < last.today)
     /\ (last.error = "PastDate") => last.unchanged

\* C5: an explicit-date placement (not rejected for its date or its images)
\* on a day whose bucket already holds MAX_PAIRS pairs fails with
\* CapacityExceeded and leaves every bucket unchanged.
C5_ExplicitOnFullDayFails ==
  (/\ last.op = "explicit"
   /\ last.pre >= MAX_PAIRS
   /\ last.error \notin {"PastDate", "MissingImages", "UploadFailed"}) =>
     /\ last.error = "CapacityExceeded"
     /\ last.unchanged

\* C6: a completion recorded on a session whose lastPlayedDate is
\* yesterdayKey() increases currentStreak by exactly 1 and sets perfectStreak
\* to perfectStreak + 1 when the game was perfect and to 0 when it was not.
C6_StreakContinuesFromYesterday ==
  (Completed /\ lastS.before.lastPlayedDate = lastS.yesterday) =>
     /\ stats.currentStreak = lastS.before.currentStreak + 1
     /\ stats.perfectStreak = IF lastS.perfect THEN lastS.before.perfectStreak + 1 ELSE 0

C6_Witness ==
  /\ lastS.op = "markAsPlayedToday" /\ lastS.status = 200
  /\ lastS.before.lastPlayedDate = lastS.yesterday
  /\ lastS.perfect
  /\ lastS.before.perfectStreak >= 1
  /\ stats.currentStreak >= 2

\* C7: a completion recorded on a session whose lastPlayedDate is neither
\* today nor yesterday (a gap, or never played) sets currentStreak to 1 and
\* perfectStreak to 1 if the game was perfect, else 0, whatever they were.
C7_StreakRestartsAfterGap ==
  (Completed /\ lastS.before.lastPlayedDate \notin {lastS.today, lastS.yesterday}) =>
     /\ stats.currentStreak = 1
     /\ stats.perfectStreak = IF lastS.perfect THEN 1 ELSE 0

C7_Witness ==
  /\ lastS.op = "markAsPlayedToday" /\ lastS.status = 200
  /\ lastS.before.lastPlayedDate # NoDate
  /\ lastS.before.lastPlayedDate < lastS.yesterday
  /\ lastS.before.currentStreak >= 2
  /\ stats.currentStreak = 1

\* C8: a completion recorded on a session whose lastPlayedDate already is
\* todayKey() leaves currentStreak and perfectStreak unchanged, for either
\* value of wasPerfect.
C8_SameDayCompletionKeepsStreaks ==
  (Completed /\ lastS.before.lastPlayedDate = lastS.today) =>
     /\ stats.currentStreak = lastS.before.currentStreak
     /\ stats.perfectStreak = lastS.before.perfectStreak

C8_Witness ==
  /\ lastS.op = "markAsPlayedToday" /\ lastS.status = 200
  /\ lastS.before.lastPlayedDate = lastS.today
  /\ lastS.before.currentStreak >= 2
  /\ lastS.before.perfectStreak = 0
  /\ lastS.perfect

\* C9: after every completion, in every branch, maxStreak is the larger of
\* the old maxStreak and the new currentStreak, maxPerfectStreak the larger
\* of the old maxPerfectStreak and the new perfectStreak, and lastPlayedDate
\* is todayKey(); so maxStreak >= currentStreak and maxPerfectStreak >=
\* perfectStreak after it.
C9_MaximaFollowStreaks ==
  Completed =>
     /\ stats.maxStreak = Max(lastS.before.maxStreak, stats.currentStreak)
     /\ stats.maxPerfectStreak = Max(lastS.before.maxPerfectStreak, stats.perfectStreak)
     /\ stats.lastPlayedDate = lastS.today
     /\ stats.maxStreak >= stats.currentStreak
     /\ stats.maxPerfectStreak >= stats.perfectStreak

\* C10: recordAttempt(correct, total) increases gamesPlayed by 1, counts
\* mistakes = max(total - correct, 0) in mistakeDistribution[mistakes] and in
\* no other entry, sets mostRecentScore = mistakes, increases perfectPuzzles
\* by 1 exactly when mistakes = 0, and sets winPercentage to
\* 100 * perfectPuzzles / gamesPlayed rounded to the nearest integer.
C10_AttemptRecorded ==
  lastS.op = "updateUserStats" =>
    LET b == lastS.before
        mistakes == IF lastS.total > lastS.correct THEN lastS.total - lastS.correct ELSE 0
    IN /\ stats.gamesPlayed = b.gamesPlayed + 1
       /\ \A k \in MistakeKeys :
            stats.mistakeDistribution[k] =
              b.mistakeDistribution[k] + (IF k = mistakes THEN 1 ELSE 0)
       /\ stats.mostRecentScore = mistakes
       /\ stats.perfectPuzzles = b.perfectPuzzles + (IF mistakes = 0 THEN 1 ELSE 0)
       /\ 2 * stats.gamesPlayed * stats.winPercentage <=
            200 * stats.perfectPuzzles + stats.gamesPlayed
       /\ 200 * stats.perfectPuzzles + stats.gamesPlayed <
            2 * stats.gamesPlayed * (stats.winPercentage + 1)
       /\ (b.gamesPlayed = 0 /\ lastS.correct = 3 /\ lastS.total = 5) =>
            (stats.mistakeDistribution[2] = 1 /\ stats.gamesPlayed = 1
             /\ stats.winPercentage = 0)

\* C11: lazy selection rollover is idempotent.  A getSelections on a session
\* whose lastSelectionMadeDate is not today empties selections and sets
\* lastSelectionMadeDate to today; once lastSelectionMadeDate is today, no
\* step within that civil day changes it, only saveSelections changes the
\* stored selections, and every getSelections returns the stored selections
\* and leaves the session as it was.
C11_LazyRolloverOnce ==
  [][LET today == todayKey(now, dst)
     IN /\ (hasStats /\ now' = now /\ lastS'.op = "getSelections") =>
             IF stats.lastSelectionMadeDate # today
             THEN /\ stats'.selections = <<>>
                  /\ stats'.lastSelectionMadeDate = today
                  /\ lastS'.selections = <<>>
             ELSE /\ stats' = stats
                  /\ lastS'.selections = stats.selections
        /\ (hasStats /\ stats.lastSelectionMadeDate = today /\ todayKey(now', dst) = today) =>
             /\ hasStats'
             /\ stats'.lastSelectionMadeDate = today
             /\ (stats'.selections # stats.selections) =>
                  (lastS'.op = "saveSelections" /\ stats'.selections = lastS'.selections)
    ]_vars

\* A second read in a civil day after the first one returns what was saved
\* in between.
C11_Witness ==
  /\ lastS.op = "getSelections" /\ lastS.status = 200
  /\ lastS.today > FirstDay
  /\ lastS.before.lastSelectionMadeDate = lastS.today
  /\ lastS.selections = <<0, 1>>
  /\ stats.selections = <<0, 1>>

\* C12: resetTries sets triesRemaining to 3 exactly when lastPlayedDate is
\* today or lastTriesMadeDate is not today; otherwise (a try was made today
\* and the puzzle was not completed today) it leaves triesRemaining and every
\* other field of the session unchanged.
C12_ResetTriesIffDue ==
  (lastS.op = "resetTries" /\ lastS.status = 200) =>
    LET b == lastS.before
        due == b.lastPlayedDate = lastS.today \/ b.lastTriesMadeDate # lastS.today
    IN IF due THEN stats.triesRemaining = 3 ELSE stats = b

C12_Witness ==
  /\ lastS.op = "resetTries" /\ lastS.status = 200
  /\ lastS.before.lastPlayedDate = lastS.today
  /\ lastS.before.lastTriesMadeDate = lastS.today
  /\ lastS.before.triesRemaining = 1
  /\ stats.triesRemaining = 3

\* C13: civil day stability.  At any two instants of the same US Eastern
\* civil day the scheduler computes the same day for 'today' (the UTC day
\* whose 05:00 instant is the scheduledDate its scan starts from); the value
\* changes only at local midnight, never at UTC midnight.
C13_CivilDayStability ==
  [][(todayKey(now', dst) = todayKey(now, dst)) =>
       (/\ UtcDay(now') = UtcDay(now)
        /\ scheduledDate(UtcDay(now')) = scheduledDate(UtcDay(now)))]_vars

\* C14: the daily-puzzle read returns the pairs of the bucket whose
\* scheduledDate lies in the UTC range of the current Eastern civil day, and
\* answers 404 exactly when there is no such bucket or it holds no pairs; it
\* never returns the bucket of the previous or the next civil day.
C14_DailyPuzzleOfCivilDay ==
  last.op = "daily" =>
    LET lo == 24 * last.today + EasternOffset(dst)
        inRange == { d \in Days : /\ store[d].exists
                                  /\ scheduledDate(d) >= lo
                                  /\ scheduledDate(d) < lo + 24 }
        playable == { d \in inRange : Len(store[d].pairs) >= 1 }
    IN /\ (last.status = 404) <=> (playable = {})
       /\ (last.status = 200) =>
            (last.day \in inRange /\ last.pairs = store[last.day].pairs)

\* C16: when image generation returns null for a human image, the request
\* places no pair: the step that answers it answers 429 (try again later,
\* not a failure) and leaves the store and every request in flight as they
\* were, and no request goes on to the scan with a null AI image.
C16_NullGenerationPlacesNothing ==
  [][/\ \A w \in Workers : req'[w].pc # "idle" => req'[w].aiImageUrl # "null"
     /\ (last' # last /\ last'.error = "GenerationSkipped") =>
          (/\ last'.status = 429
           /\ store' = store
           /\ nextId' = nextId
           /\ req' = req)
    ]_vars

\* A request was answered 429 while another upload was about to save: no
\* bucket has been written.
C16_Witness ==
  /\ last.op = "auto" /\ last.error = "GenerationSkipped" /\ last.status = 429
  /\ \E w \in Workers : req[w].pc = "save" /\ req[w].aiImageUrl = "ok"
  /\ \A d \in Days : ~FindBucket(store, d)

\* C17: deleting pair pairId of a day removes exactly that pair from that
\* day's bucket and leaves the other pairs of the bucket, their order and
\* every other day unchanged; when the day has no bucket or the bucket has
\* no such pair the answer is 404 and the store is unchanged.  The bulk
\* route likewise touches no other day and nothing when it answers 404.
C17_RemoveExactlyThatPair ==
  [][/\ (requests' = requests + 1 /\ last'.op = "delete") =>
          LET d == last'.day
              id == last'.pair
          IN IF store[d].exists /\ HasPair(store[d].pairs, id)
             THEN /\ last'.status = 200
                  /\ store'[d].exists
                  /\ store'[d].pairs = SelectSeq(store[d].pairs, LAMBDA p : p # id)
                  /\ Len(store'[d].pairs) = Len(store[d].pairs) - 1
                  /\ \A e \in Days \ {d} : store'[e] = store[e]
             ELSE /\ last'.status = 404
                  /\ store' = store
     /\ (requests' = requests + 1 /\ last'.op = "bulkDelete") =>
          /\ \A e \in Days \ {last'.day} : store'[e] = store[e]
          /\ (last'.status = 404) => (store' = store)
    ]_vars

\* A pair from the middle of a bucket was removed.
C17_Witness ==
  /\ last.op = "delete" /\ last.status = 200
  /\ last.pairs = store[last.day].pairs
  /\ Len(last.pairs) = last.pre - 1
  /\ last.pre >= 3
  /\ ~HasPair(last.pairs, last.pair)
  /\ last.pairs[1] < last.pair
  /\ last.pairs[Len(last.pairs)] > last.pair

\* C15: in every reachable state of a player session, triesRemaining is an
\* integer in [0, 3].
C15_TriesInRange ==
  hasStats => (stats.triesRemaining >= 0 /\ stats.triesRemaining <= 3)

\* C18: every player-session operation invoked for a user who has no session
\* either creates the session (triesRemaining = 3, and zeroed counters unless
\* the operation itself records a game) or answers not-found; none answers
\* success while the user still has no session.
C18_MissingSessionCreatedOrNotFound ==
  (lastS.op # "none" /\ ~lastS.hadStats) =>
     \/ lastS.status = 404 /\ ~hasStats
     \/ /\ lastS.status \in {200, 201}
        /\ hasStats
        /\ stats.triesRemaining = 3
        /\ (lastS.op # "updateUserStats") =>
             (/\ stats.gamesPlayed = 0 /\ stats.currentStreak = 0 /\ stats.maxStreak = 0
              /\ stats.perfectStreak = 0 /\ stats.maxPerfectStreak = 0
              /\ stats.perfectPuzzles = 0 /\ stats.winPercentage = 0)

\* C19: the scan for a day with spare capacity examines at most a fixed cap
\* of days (ScanCap), even when every day it examines has a full bucket; it
\* then returns a day or fails with NoAvailableDay.
C19_ScanWithinCap ==
  \A w \in Workers :
    req[w].pc # "idle" => (req[w].target - UtcDay(req[w].t0)) + 1 <= ScanCap

\* C20: an automated placement reports success only with its pair stored in
\* a bucket of at most MAX_PAIRS pairs; when another writer filled the chosen
\* day between the scan and the append, the pair goes to a later day (or the
\* request fails with SchedulingFailed after a bounded number of retries),
\* never into the full bucket.
C20_SuccessMeansStoredWithinCapacity ==
  (last.op = "auto" /\ last.status = 200) =>
     /\ last.grewByOne
     /\ last.pre + 1 <= MAX_PAIRS

\* C21: duplicate concurrent completion requests are idempotent.  When two
\* mark-as-played requests of one user, made on the same civil day with the
\* same isPerfectPuzzle, have both saved, in whatever order their loads and
\* saves ran, currentStreak, perfectStreak and lastPlayedDate are what one
\* request alone produces from the document either of them loaded.
C21_DuplicateCompletionIdempotent ==
  (/\ \A w \in Workers : req[w].pc = "saved"
   /\ req[1].today = req[2].today
   /\ req[1].isPerfectPuzzle = req[2].isPerfectPuzzle) =>
     \A w \in Workers :
       LET single == markAsPlayedStats(req[w].loaded, req[w].today, req[w].yesterday,
                                       req[w].isPerfectPuzzle)
       IN /\ stats.currentStreak = single.currentStreak
          /\ stats.perfectStreak = single.perfectStreak
          /\ stats.lastPlayedDate = single.lastPlayedDate

\* Both requests loaded the document before either saved, and the streak
\* went up by one.
C21_Witness ==
  /\ \A w \in Workers : req[w].pc = "saved"
  /\ req[1].today = req[2].today
  /\ req[1].isPerfectPuzzle /\ req[2].isPerfectPuzzle
  /\ req[1].loaded = req[2].loaded
  /\ req[1].loaded.lastPlayedDate = req[1].yesterday
  /\ req[1].loaded.perfectStreak >= 1
  /\ stats.currentStreak = req[1].loaded.currentStreak + 1
  /\ stats.perfectStreak = req[1].loaded.perfectStreak + 1

\* C22: the day rollover clears all puzzle-scoped answer state.  After a
\* getSelections on a session whose lastSelectionMadeDate is not today,
\* selections, completedSelections and alreadyGuessed are all empty
\* (attempts and completedAttempts are no paths of the schema and are never
\* stored).
C22_RolloverClearsAllAnswers ==
  (/\ lastS.op = "getSelections" /\ lastS.status = 200
   /\ lastS.before.lastSelectionMadeDate # lastS.today) =>
     /\ stats.selections = <<>>
     /\ stats.completedSelections = <<>>
     /\ stats.alreadyGuessed = <<>>

\* C23: continue-on-error in a batch.  When a run of the daily automation
\* has ended, every image of the batch was attempted, whichever of them
\* failed, and every pair whose generation succeeded is in the bucket of the
\* run's day.
C23_BatchContinuesOnError ==
  \A w \in Workers :
    (req[w].pc = "done") =>
      /\ req[w].attempted = 1..req[w].n
      /\ \A k \in 1..Len(req[w].ids) : HasPair(store[req[w].today].pairs, req[w].ids[k])

\* C27: a bulk regenerate changes only the AI image and metadata of pairs.
\* The step that ends a bulk regenerate leaves the pair identifiers of every
\* bucket as they were: a pair appended while it ran is still there, a pair
\* removed while it ran does not reappear.
C27_RegenerateKeepsConcurrentEdits ==
  [][\A w \in Workers :
       (req[w].pc = "regenerate" /\ req'[w].pc = "regenerated") => store' = store]_vars

\* C24: currentStreak counts the consecutive civil days, ending at the day
\* of the most recent completion, on which a completion was recorded.  That
\* count is at least 1 after any completion, also after the first one of a
\* session that the played-today check created earlier the same day: after a
\* successful mark-as-played, currentStreak >= 1.
C24_StreakCountsCompletionDays ==
  (lastS.op = "markAsPlayedToday" /\ lastS.status = 200) => stats.currentStreak >= 1

\* C25: for a user who has not completed today's puzzle, every played-today
\* check answers hasPlayedToday = false, the second and later ones included.
\* (No completion is ever recorded in the behaviours this is checked on.)
C25_NotPlayedUntilCompleted ==
  (lastS.op = "checkIfPlayedToday") => ~lastS.hasPlayedToday

\* C26: tries are not replenished mid-day.  For a user who has not
\* completed, once a try was made today no step within the same civil day
\* raises triesRemaining.
C26_TriesNotReplenishedMidDay ==
  [][(/\ hasStats /\ hasStats'
      /\ todayKey(now', dst) = todayKey(now, dst)
      /\ stats.lastTriesMadeDate = todayKey(now, dst)
      /\ stats.triesRemaining < 3) =>
        stats'.triesRemaining <= stats.triesRemaining]_vars

\* C28: in every reachable state of a player session perfectStreak is at
\* most currentStreak and maxPerfectStreak at most maxStreak, and
\* resetUserStats leaves perfectStreak at 0.
C28_PerfectStreakBounded ==
  hasStats =>
    /\ stats.perfectStreak <= stats.currentStreak
    /\ stats.maxPerfectStreak <= stats.maxStreak
    /\ (lastS.op = "resetUserStats" => stats.perfectStreak = 0)

\* C29: the counts of mistakeDistribution add up to gamesPlayed in every
\* state reached by stats updates and resets from a new session.
C29_DistributionSumsToGames ==
  SumCounts(stats.mistakeDistribution, IF MaxTotal > 5 THEN MaxTotal ELSE 5) = stats.gamesPlayed

C29_Witness ==
  /\ lastS.op = "updateUserStats"
  /\ stats.gamesPlayed = 2
  /\ lastS.before.gamesPlayed = 1
  /\ \E k \in MistakeKeys : k > 0 /\ stats.mistakeDistribution[k] = 2

\* C30: the two completion-time updates commute.  After both calls of one
\* finished game, in whichever order they ran, currentStreak, perfectStreak,
\* maxStreak, maxPerfectStreak and lastPlayedDate are what the opposite order
\* gives from the same document, and the streaks are those of one
\* completion: the pair advances the streak once, not twice, and the pair
\* of the user's first finished game (gamesPlayed was 0) makes currentStreak 1.
C30_CompletionUpdatesCommute ==
  (lastS.op = "completePuzzle") =>
    LET b == lastS.before
        correct == IF lastS.perfect THEN lastS.total ELSE lastS.correct
        statsThenMark == markAsPlayedStats(updatedStats(b, lastS.today, lastS.yesterday, correct, lastS.total),
                                           lastS.today, lastS.yesterday, lastS.perfect)
        markThenStats == updatedStats(IF lastS.hadStats
                                      THEN markAsPlayedStats(b, lastS.today, lastS.yesterday, lastS.perfect)
                                      ELSE b,
                                      lastS.today, lastS.yesterday, correct, lastS.total)
        once == markAsPlayedStats(b, lastS.today, lastS.yesterday, lastS.perfect)
    IN /\ \A o \in {statsThenMark, markThenStats} :
            /\ stats.currentStreak = o.currentStreak
            /\ stats.perfectStreak = o.perfectStreak
            /\ stats.maxStreak = o.maxStreak
            /\ stats.maxPerfectStreak = o.maxPerfectStreak
            /\ stats.lastPlayedDate = o.lastPlayedDate
       /\ stats.currentStreak = once.currentStreak
       /\ stats.perfectStreak = once.perfectStreak
       /\ (b.gamesPlayed = 0 => stats.currentStreak = 1)

====
